---- MODULE Spec2Model ----
(***************************************************************************)
(* Model of framequery's AST-to-plan compiler (_dag_compile.py): the       *)
(* aggregate splitter (SplitAggregateTransformer), the plan compiler       *)
(* (DagCompiler) and the id generator they thread.                         *)
(***************************************************************************)
EXTENDS Integers, Sequences, FiniteSets, TLC

(***************************************************************************)
(* Bounds of the model.                                                    *)
(***************************************************************************)
\* longest select list drawn as an input
MaxSelectLen == 2
\* a call passes the caller's shared generator only while it stands at most here
MaxGenStart == 1

(***************************************************************************)
(* Optional values: None is the absent value, Some(x) a present one.       *)
(***************************************************************************)
None == <<>>
Some(x) == <<x>>
IsNone(o) == o = <<>>
Get(o) == o[1]

\* F applied to the value of v, with v evaluated once (a local variable)
Bind(v, F(_)) == CHOOSE y \in {F(x) : x \in {v}} : TRUE

(***************************************************************************)
(* AST expressions (tagged variants).                                      *)
(***************************************************************************)
ColumnReference(parts) == [tag |-> "ColumnReference", parts |-> parts]
Integer(text) == [tag |-> "Integer", text |-> text]
Float(text) == [tag |-> "Float", text |-> text]
String(text) == [tag |-> "String", text |-> text]
Bool(text) == [tag |-> "Bool", text |-> text]
Null == [tag |-> "Null"]
Asterisk == [tag |-> "Asterisk"]
BinaryExpression(op, left, right) ==
    [tag |-> "BinaryExpression", op |-> op, left |-> left, right |-> right]
UnaryExpression(op, operand) ==
    [tag |-> "UnaryExpression", op |-> op, operand |-> operand]
FunctionCall(name, arguments) ==
    [tag |-> "FunctionCall", name |-> name, arguments |-> arguments]
GeneralSetFunction(name, value) ==
    [tag |-> "GeneralSetFunction", name |-> name, value |-> value]
CaseExpression(cases, else_) ==
    [tag |-> "CaseExpression", cases |-> cases, else_ |-> else_]
Cast(value, type) == [tag |-> "Cast", value |-> value, type |-> type]
DerivedColumn(value, alias) ==
    [tag |-> "DerivedColumn", value |-> value, alias |-> alias]

\* a reference that is qualified by a table name
RefQualified(col_name) == ColumnReference(<<"t", col_name>>)

\* _ref(col_name)
Ref(col_name) == ColumnReference(<<col_name>>)

(***************************************************************************)
(* The id generator.  A generator is its position n (the next number it    *)
(* yields) and the history of the call sites that drew from it.            *)
(***************************************************************************)
Digit == <<"0", "1", "2", "3", "4", "5", "6", "7", "8", "9">>

RECURSIVE Str(_)
\* str(i): the decimal rendering of a natural number
Str(i) == IF i < 10 THEN Digit[i + 1]
          ELSE Str(i \div 10) \o Digit[(i % 10) + 1]

\* default_generator(): yields str(0), str(1), ...
default_generator == [n |-> 0, drawn |-> <<>>]

\* a generator the caller injects, standing at position n
GeneratorAt(n) == [n |-> n, drawn |-> <<>>]

\* _tmp_column(): '${}'.format(next(self.id_generator)), drawn at `site`
TmpColumn(g, site) ==
    [alias |-> "$" \o Str(g.n),
     g |-> [n |-> g.n + 1,
            drawn |-> Append(g.drawn,
                             [alias |-> "$" \o Str(g.n), site |-> site])]]

(***************************************************************************)
(* The aggregate splitter.  A split returns err (the empty string when it  *)
(* succeeded, else the reason), the rewritten node, the aggregates, the    *)
(* pre-aggregates and the generator as the call left it.                   *)
(***************************************************************************)
NoError == ""
NestedAggregateError == "multiple aggregation levels not allowed"
NoHandlerError == "no handler"
ErrorNode == [tag |-> "Error"]

SplitOk(node, aggs, pre_aggs, g) ==
    [err |-> NoError, node |-> node, aggs |-> aggs, pre_aggs |-> pre_aggs,
     g |-> g]
SplitFail(err, g) ==
    [err |-> err, node |-> ErrorNode, aggs |-> <<>>, pre_aggs |-> <<>>,
     g |-> g]

\* the node classes SplitAggregateTransformer defines a split_* handler for
SplitHandlers ==
    {"DerivedColumn", "ColumnReference", "GeneralSetFunction",
     "BinaryExpression", "UnaryExpression", "FunctionCall", "Integer",
     "Float"}

\* call_handler(self, "split", node) finds a handler by the node's class
HasSplitHandler(node) == node.tag \in SplitHandlers

\* a nesting check that never fires
NestedCheckNever(aggs, pre_aggs) == FALSE

\* `if aggs or pre_aggs:` in split_general_set_function
NestedCheck(aggs, pre_aggs) == aggs # <<>> \/ pre_aggs # <<>>

\* a single draw that names both the pre-aggregate and the aggregate
DrawPairOnce(g) ==
    Bind(TmpColumn(g, "pre_agg_col"), LAMBDA p :
        [pre_agg_col |-> p.alias, agg_col |-> p.alias, g |-> p.g])

\* a pair of draws in which the aggregate's alias is drawn first
DrawPairSwapped(g) ==
    Bind(TmpColumn(g, "agg_col"), LAMBDA a :
    Bind(TmpColumn(a.g, "pre_agg_col"), LAMBDA p :
        [pre_agg_col |-> p.alias, agg_col |-> a.alias, g |-> p.g]))

\* pre_agg_col = self._tmp_column(); agg_col = self._tmp_column()
DrawPair(g) ==
    Bind(TmpColumn(g, "pre_agg_col"), LAMBDA p :
    Bind(TmpColumn(p.g, "agg_col"), LAMBDA a :
        [pre_agg_col |-> p.alias, agg_col |-> a.alias, g |-> a.g]))

RECURSIVE Split(_, _)
RECURSIVE SplitArguments(_, _, _)

\* the loop of split_function_call over node.arguments, from index i on;
\* acc holds args, aggs, pre_aggs and the generator so far
SplitArguments(arguments, i, acc) ==
    IF i > Len(arguments) THEN acc
    ELSE Bind(Split(arguments[i], acc.g), LAMBDA t :
            IF t.err # NoError THEN SplitFail(t.err, t.g)
            ELSE Bind(SplitOk(Append(acc.node, t.node), acc.aggs \o t.aggs,
                              acc.pre_aggs \o t.pre_aggs, t.g),
                      LAMBDA next : SplitArguments(arguments, i + 1, next)))

\* split_general_set_function, once node.value is split into r
SplitGeneralSetFunction(node, r) ==
    IF r.err # NoError THEN r
    ELSE IF NestedCheck(r.aggs, r.pre_aggs)
         THEN SplitFail(NestedAggregateError, r.g)
    ELSE Bind(DrawPair(r.g), LAMBDA d :
            SplitOk(Ref(d.agg_col),
                    <<DerivedColumn(
                        GeneralSetFunction(node.name, Ref(d.pre_agg_col)),
                        Some(d.agg_col))>>,
                    <<DerivedColumn(r.node, Some(d.pre_agg_col))>>,
                    d.g))

\* split_binary_expression, once node.left is split into l
SplitBinaryExpression(node, l) ==
    IF l.err # NoError THEN l
    ELSE Bind(Split(node.right, l.g), LAMBDA r :
            IF r.err # NoError THEN r
            ELSE SplitOk(BinaryExpression(node.op, l.node, r.node),
                         l.aggs \o r.aggs, l.pre_aggs \o r.pre_aggs, r.g))

\* SplitAggregateTransformer.split(node) with generator g
Split(node, g) ==
    IF ~HasSplitHandler(node) THEN SplitFail(NoHandlerError, g)
    ELSE CASE node.tag = "DerivedColumn" ->
              Bind(Split(node.value, g), LAMBDA r :
                 IF r.err # NoError THEN r
                 ELSE SplitOk(DerivedColumn(r.node, node.alias), r.aggs,
                              r.pre_aggs, r.g))
         [] node.tag \in {"ColumnReference", "Integer", "Float"} ->
              SplitOk(node, <<>>, <<>>, g)
         [] node.tag = "GeneralSetFunction" ->
              Bind(Split(node.value, g),
                   LAMBDA r : SplitGeneralSetFunction(node, r))
         [] node.tag = "BinaryExpression" ->
              Bind(Split(node.left, g),
                   LAMBDA l : SplitBinaryExpression(node, l))
         [] node.tag = "UnaryExpression" ->
              Bind(Split(node.operand, g), LAMBDA r :
                 IF r.err # NoError THEN r
                 ELSE SplitOk(UnaryExpression(node.op, r.node), r.aggs,
                              r.pre_aggs, r.g))
         [] node.tag = "FunctionCall" ->
              Bind(SplitArguments(node.arguments, 1,
                                  SplitOk(<<>>, <<>>, <<>>, g)),
                   LAMBDA r :
                 IF r.err # NoError THEN r
                 ELSE SplitOk(FunctionCall(node.name, r.node), r.aggs,
                              r.pre_aggs, r.g))

\* the generator a call uses: id_generator, or default_generator() for None
GeneratorOf(id_generator) ==
    IF IsNone(id_generator) THEN default_generator
    ELSE GeneratorAt(Get(id_generator))

\* split_aggregate(expr, id_generator)
split_aggregate(expr, g) == Split(expr, g)

RECURSIVE SplitAggregatesFrom(_, _, _)
\* the loop of split_aggregates over exprs, from index i on
SplitAggregatesFrom(exprs, i, acc) ==
    IF i > Len(exprs) THEN acc
    ELSE Bind(split_aggregate(exprs[i], acc.g), LAMBDA t :
            IF t.err # NoError THEN SplitFail(t.err, t.g)
            ELSE Bind(SplitOk(Append(acc.node, t.node), acc.aggs \o t.aggs,
                              acc.pre_aggs \o t.pre_aggs, t.g),
                      LAMBDA next : SplitAggregatesFrom(exprs, i + 1, next)))

\* split_aggregates(exprs, id_generator): node holds cols
split_aggregates(exprs, g) ==
    SplitAggregatesFrom(exprs, 1, SplitOk(<<>>, <<>>, <<>>, g))

(***************************************************************************)
(* AST statements and table references.                                    *)
(***************************************************************************)
\* a select list that is a sequence of DerivedColumn (else it is Asterisk)
SelectList(items) == [tag |-> "SelectList", items |-> items]
TableName(table, alias) == [tag |-> "TableName", table |-> table,
                            alias |-> alias]
JoinedTable(table, joins) == [tag |-> "JoinedTable", table |-> table,
                              joins |-> joins]
AstJoin(how, table, on) == [tag |-> "Join", how |-> how, table |-> table,
                            on |-> on]
AstCrossJoin(table) == [tag |-> "CrossJoin", table |-> table]
LimitClause(offset, limit) == [offset |-> offset, limit |-> limit]
\* Select(select_list, from_clause, where_clause, group_by_clause,
\*        having_clause, order_by_clause, limit_clause, set_quantifier)
Select(sl, fc, w, gb, h, ob, l, q) ==
    [tag |-> "Select", select_list |-> sl, from_clause |-> fc,
     where_clause |-> w, group_by_clause |-> gb, having_clause |-> h,
     order_by_clause |-> ob, limit_clause |-> l, set_quantifier |-> q]

(***************************************************************************)
(* Plan nodes.                                                             *)
(***************************************************************************)
GetTable(name, alias) == [tag |-> "GetTable", name |-> name, alias |-> alias]
Filter(input, predicate) == [tag |-> "Filter", input |-> input,
                             predicate |-> predicate]
Transform(input, projections) == [tag |-> "Transform", input |-> input,
                                  projections |-> projections]
Aggregate(input, aggregates, group_by) ==
    [tag |-> "Aggregate", input |-> input, aggregates |-> aggregates,
     group_by |-> group_by]
Sort(input, keys) == [tag |-> "Sort", input |-> input, keys |-> keys]
Limit(input, offset, count) == [tag |-> "Limit", input |-> input,
                                offset |-> offset, count |-> count]
DropDuplicates(input) == [tag |-> "DropDuplicates", input |-> input]
CrossJoin(left, right) == [tag |-> "CrossJoin", left |-> left,
                           right |-> right]
Join(left, right, how, on) == [tag |-> "Join", left |-> left,
                               right |-> right, how |-> how, on |-> on]

(***************************************************************************)
(* The plan compiler.  A compilation returns err, the plan (table) and the *)
(* generator as the call left it.                                          *)
(***************************************************************************)
EmptyFromClause == "cannot handle empty from clauses"
UnknownSetQuantifier == "unknown set quantifier"
UnknownJoinKind == "unknown join"
AsteriskWithGroupBy == "assert node.group_by_clause is None"
ErrorPlan == [tag |-> "Error"]

PlanOk(table, g) == [err |-> NoError, table |-> table, g |-> g]
PlanFail(err, g) == [err |-> err, table |-> ErrorPlan, g |-> g]

\* str.upper() on the set quantifiers the inputs use
Upper(s) == CASE s = "all" -> "ALL"
              [] s = "distinct" -> "DISTINCT"
              [] s = "Distinct" -> "DISTINCT"
              [] s = "some" -> "SOME"
              [] OTHER -> s

\* str.lower() on the join kinds the inputs use
Lower(s) == CASE s = "INNER" -> "inner"
              [] s = "LEFT" -> "left"
              [] s = "LEFT OUTER" -> "left outer"
              [] s = "Right" -> "right"
              [] OTHER -> s

\* get_selected_column_name(col): the name a column goes by, if it has one
get_selected_column_name(col) ==
    CASE col.tag = "DerivedColumn" /\ ~IsNone(col.alias) -> col.alias
      [] col.tag = "ColumnReference" -> Some(col.parts[Len(col.parts)])
      [] OTHER -> None

\* a _group_by_col_alias that draws a fresh alias for every key
GroupByColAliasFresh(col, g) == TmpColumn(g, "group_by")

\* DagCompiler._group_by_col_alias(col)
GroupByColAlias(col, g) ==
    Bind(get_selected_column_name(col), LAMBDA col_id :
        IF ~IsNone(col_id) THEN [alias |-> Get(col_id), g |-> g]
        ELSE TmpColumn(g, "group_by"))

RECURSIVE NormalizeGroupByFrom(_, _, _)
\* the loop of _normalize_group_by over group_by, from index i on
NormalizeGroupByFrom(group_by, i, acc) ==
    IF i > Len(group_by) THEN acc
    ELSE Bind(GroupByColAlias(group_by[i], acc.g), LAMBDA c :
         Bind([group_by |-> Append(acc.group_by, Ref(c.alias)),
               pre_aggs |-> Append(acc.pre_aggs,
                                   DerivedColumn(group_by[i], Some(c.alias))),
               g |-> c.g],
              LAMBDA next : NormalizeGroupByFrom(group_by, i + 1, next)))

\* DagCompiler._normalize_group_by(group_by): the normalized key list (None
\* when the clause is absent) and the columns to pre-compute
NormalizeGroupBy(group_by, g) ==
    IF IsNone(group_by) THEN [group_by |-> None, pre_aggs |-> <<>>, g |-> g]
    ELSE Bind(NormalizeGroupByFrom(Get(group_by), 1,
                  [group_by |-> <<>>, pre_aggs |-> <<>>, g |-> g]),
              LAMBDA r : [group_by |-> Some(r.group_by),
                          pre_aggs |-> r.pre_aggs, g |-> r.g])

\* DagCompiler._filter_pre_transform(node, table)
FilterPreTransform(node, table) ==
    IF IsNone(node.where_clause) THEN table
    ELSE Filter(table, Get(node.where_clause))

\* a HAVING step that leaves the clause out
FilterPostTransformSkipped(node, table) == table

\* DagCompiler._filter_post_transform(node, table)
FilterPostTransform(node, table) ==
    IF IsNone(node.having_clause) THEN table
    ELSE Filter(table, Get(node.having_clause))

\* DagCompiler._order(node, table)
Order(node, table) ==
    IF IsNone(node.order_by_clause) THEN table
    ELSE Sort(table, Get(node.order_by_clause))

\* DagCompiler._limit(node, table)
LimitStep(node, table) ==
    IF IsNone(node.limit_clause) THEN table
    ELSE Limit(table, Get(node.limit_clause).offset,
               Get(node.limit_clause).limit)

\* DagCompiler._drop_duplicates(node, table)
DropDuplicatesStep(node, table, g) ==
    LET set_quantifier == Upper(node.set_quantifier)
    IN CASE set_quantifier = "ALL" -> PlanOk(table, g)
         [] set_quantifier = "DISTINCT" -> PlanOk(DropDuplicates(table), g)
         [] OTHER -> PlanFail(UnknownSetQuantifier, g)

\* an Asterisk branch that still wraps a final Transform
TransformAsteriskProjected(node, table, g) ==
    IF ~IsNone(node.group_by_clause) THEN PlanFail(AsteriskWithGroupBy, g)
    ELSE PlanOk(Transform(Order(node, table), <<>>), g)

\* _transform_table when node.select_list == Asterisk()
TransformAsterisk(node, table, g) ==
    IF ~IsNone(node.group_by_clause) THEN PlanFail(AsteriskWithGroupBy, g)
    ELSE PlanOk(Order(node, table), g)

\* `if pre_aggregates: table = Transform(table, pre_aggregates)`
PreAggregateStep(table, pre_aggregates) ==
    IF pre_aggregates # <<>> THEN Transform(table, pre_aggregates) ELSE table

\* an aggregation step that wraps the table twice
AggregateStepTwice(table, aggregates, group_by) ==
    IF aggregates # <<>>
    THEN Aggregate(Aggregate(table, aggregates, group_by), aggregates, group_by)
    ELSE table

\* `if aggregates: table = Aggregate(table, aggregates, group_by=group_by)`
AggregateStep(table, aggregates, group_by) ==
    IF aggregates # <<>> THEN Aggregate(table, aggregates, group_by) ELSE table

\* _transform_table for a select list of derived columns
TransformColumns(node, table, g) ==
    Bind(split_aggregates(node.select_list.items, g), LAMBDA s :
       IF s.err # NoError THEN PlanFail(s.err, s.g)
       ELSE Bind(NormalizeGroupBy(node.group_by_clause, s.g), LAMBDA n :
            Bind(PreAggregateStep(table, s.pre_aggs \o n.pre_aggs), LAMBDA t1 :
            Bind(AggregateStep(t1, s.aggs, n.group_by), LAMBDA t2 :
                PlanOk(Transform(Order(node, t2), s.node), n.g)))))

\* DagCompiler._transform_table(node, table)
TransformTable(node, table, g) ==
    IF node.select_list = Asterisk THEN TransformAsterisk(node, table, g)
    ELSE TransformColumns(node, table, g)

RECURSIVE CompileSelect(_, _)
RECURSIVE CompileFromClause(_, _)
RECURSIVE CompileSingleTable(_, _)
RECURSIVE CompileTail(_, _, _)
RECURSIVE CompileJoins(_, _, _)

\* a loop over tail that joins each table on the left of the tables before it
CompileTailSwapped(from_clause, i, acc) ==
    IF i > Len(from_clause) THEN acc
    ELSE Bind(CompileSingleTable(from_clause[i], acc.g), LAMBDA next :
            IF next.err # NoError THEN next
            ELSE Bind(PlanOk(CrossJoin(next.table, acc.table), next.g),
                      LAMBDA result : CompileTail(from_clause, i + 1, result)))

\* the loop of compile_from_clause over tail, from index i on
CompileTail(from_clause, i, acc) ==
    IF i > Len(from_clause) THEN acc
    ELSE Bind(CompileSingleTable(from_clause[i], acc.g), LAMBDA next :
            IF next.err # NoError THEN next
            ELSE Bind(PlanOk(CrossJoin(acc.table, next.table), next.g),
                      LAMBDA result : CompileTail(from_clause, i + 1, result)))

\* DagCompiler.compile_from_clause(from_clause)
CompileFromClause(from_clause, g) ==
    IF Len(from_clause) = 0 THEN PlanFail(EmptyFromClause, g)
    ELSE Bind(CompileSingleTable(from_clause[1], g), LAMBDA result :
            IF result.err # NoError THEN result
            ELSE CompileTail(from_clause, 2, result))

\* one round of the loop over table.joins: join, with its table compiled
JoinStep(join, acc, right) ==
    CASE join.tag = "Join" ->
            PlanOk(Join(acc.table, right.table, Lower(join.how), join.on),
                   right.g)
      [] join.tag = "CrossJoin" ->
            PlanOk(CrossJoin(acc.table, right.table), right.g)
      [] OTHER -> PlanFail(UnknownJoinKind, right.g)

\* the loop of _compile_single_table over table.joins, from index i on
CompileJoins(joins, i, acc) ==
    IF i > Len(joins) THEN acc
    ELSE Bind(CompileFromClause(<<joins[i].table>>, acc.g), LAMBDA right :
            IF right.err # NoError THEN right
            ELSE Bind(JoinStep(joins[i], acc, right), LAMBDA result :
                    IF result.err # NoError THEN result
                    ELSE CompileJoins(joins, i + 1, result)))

\* a _compile_single_table that compiles a nested Select on a copy of the
\* generator, so that the generator of the enclosing Select does not move
CompileSingleTableOnCopy(table, g) ==
    CASE table.tag = "TableName" ->
            PlanOk(GetTable(table.table, table.alias), g)
      [] table.tag = "Select" ->
            Bind(CompileSelect(table, g), LAMBDA r : [r EXCEPT !.g = g])
      [] table.tag = "JoinedTable" ->
            Bind(CompileFromClause(<<table.table>>, g), LAMBDA result :
               IF result.err # NoError THEN result
               ELSE CompileJoins(table.joins, 1, result))

\* DagCompiler._compile_single_table(table)
CompileSingleTable(table, g) ==
    CASE table.tag = "TableName" ->
            PlanOk(GetTable(table.table, table.alias), g)
      [] table.tag = "Select" -> CompileSelect(table, g)
      [] table.tag = "JoinedTable" ->
            Bind(CompileFromClause(<<table.table>>, g), LAMBDA result :
               IF result.err # NoError THEN result
               ELSE CompileJoins(table.joins, 1, result))

\* compile_select from _filter_post_transform on, with t3 the transformed table
CompileSelectTail(node, t3) ==
    IF t3.err # NoError THEN t3
    ELSE Bind(DropDuplicatesStep(node, FilterPostTransform(node, t3.table),
                                 t3.g),
              LAMBDA t5 : IF t5.err # NoError THEN t5
                          ELSE PlanOk(LimitStep(node, t5.table), t5.g))

\* DagCompiler.compile_select(node)
CompileSelect(node, g) ==
    Bind(CompileFromClause(node.from_clause, g), LAMBDA t1 :
       IF t1.err # NoError THEN t1
       ELSE Bind(TransformTable(node, FilterPreTransform(node, t1.table),
                                t1.g),
                 LAMBDA t3 : CompileSelectTail(node, t3)))

\* compile_dag(node, id_generator)
compile_dag(node, g) == CompileSelect(node, g)

(***************************************************************************)
(* The inputs the calls are made with.                                     *)
(***************************************************************************)
ColA == ColumnReference(<<"a">>)
ColG == ColumnReference(<<"g">>)
ColTB == ColumnReference(<<"t", "b">>)
Int3 == Integer("3")
SumA == GeneralSetFunction("SUM", ColA)
AvgA == GeneralSetFunction("AVG", ColA)
AplusG == BinaryExpression("add", ColA, ColG)

\* every leaf of the expression data model
Atoms == {ColA, ColTB, Int3, Float("1.5"), String("'x'"), Bool("true"), Null}

\* aggregate-free expressions, one operator deep
Scalars ==
    Atoms
    \cup {BinaryExpression("add", x, y) : x, y \in {ColA, ColG, Int3}}
    \cup {UnaryExpression("neg", x) : x \in {ColA, String("'x'")}}
    \cup {FunctionCall("ABS", <<x>>) : x \in {ColA, Null}}
    \cup {FunctionCall("COALESCE", <<x, y>>) : x, y \in {ColA, Int3}}
    \cup {FunctionCall("NOW", <<>>)}
    \cup {Cast(ColA, "int"),
          CaseExpression(<<<<Bool("true"), ColA>>>>, Some(Int3))}

\* aggregates over aggregate-free arguments
FlatAggregates ==
    {GeneralSetFunction(name, x) : name \in {"SUM", "AVG"}, x \in Scalars}
    \cup {GeneralSetFunction("COUNT", Asterisk)}

Operands == {ColA, Int3, SumA, AvgA}

\* expressions that mix scalars and aggregates
Mixed ==
    {BinaryExpression(op, x, y) : op \in {"sub", "mul"}, x, y \in Operands}
    \cup {UnaryExpression("neg", x) : x \in Operands}
    \cup {FunctionCall("GREATEST", <<x, y>>) : x, y \in Operands}
    \cup {Cast(SumA, "int"),
          CaseExpression(<<<<Bool("true"), SumA>>>>, None)}

\* SUM(a) - 3 * AVG(a) and its mirror image
Deep ==
    {BinaryExpression("sub", SumA, BinaryExpression("mul", Int3, AvgA)),
     BinaryExpression("sub", BinaryExpression("mul", Int3, AvgA), SumA),
     FunctionCall("GREATEST", <<SumA, UnaryExpression("neg", AvgA), SumA>>)}

\* aggregates whose argument holds an aggregate
NestedAggregates ==
    {GeneralSetFunction("SUM", x) : x \in Mixed \cup {SumA}}
    \cup {BinaryExpression("add", ColA, GeneralSetFunction("MAX", SumA))}

Values == Scalars \cup FlatAggregates \cup Mixed \cup Deep
          \cup NestedAggregates

\* the expressions split_aggregate is called with
Exprs == Values
         \cup {DerivedColumn(v, alias) :
                 v \in {ColA, Int3, String("'x'"), SumA, AplusG}
                       \cup Deep \cup {GeneralSetFunction("SUM", SumA)},
                 alias \in {None, Some("s")}}

\* the select-list entries of the Selects compiled
Columns ==
    {DerivedColumn(ColA, None),
     DerivedColumn(GeneralSetFunction("SUM", AplusG), Some("s")),
     DerivedColumn(BinaryExpression("sub", SumA,
                       BinaryExpression("mul", Int3, AvgA)), None),
     DerivedColumn(GeneralSetFunction("SUM", SumA), None)}

\* the non-empty sequences over S of length at most n
SeqsUpTo(S, n) == UNION {[1..k -> S] : k \in 1..n}

SelectLists == {SelectList(items) : items \in SeqsUpTo(Columns, MaxSelectLen)}

\* the GROUP BY keys: a bare column, an expression, an aggregate
GroupKeys == {ColG, AplusG, SumA}
GroupByClauses == {None} \cup {Some(<<key>>) : key \in GroupKeys}
                  \cup {Some(<<ColG, AplusG>>), Some(<<AplusG, ColG>>)}

TableT == TableName("t", None)
TableU == TableName("u", Some("v"))
Joined == JoinedTable(TableT,
              <<AstJoin("LEFT OUTER", TableU,
                        BinaryExpression("eq", ColG, ColumnReference(<<"h">>))),
                AstCrossJoin(TableName("w", None))>>)

\* the Selects nested in a FROM clause
SubSelectAll == Select(Asterisk, <<TableT>>, None, None, None, None, None,
                       "ALL")
SubSelectSum == Select(SelectList(<<DerivedColumn(SumA, Some("s"))>>),
                       <<TableT>>, None, Some(<<AplusG>>), None, None, None,
                       "ALL")

FromClauses == {<<>>, <<TableT>>, <<TableT, TableU>>, <<Joined>>,
                <<SubSelectAll>>, <<TableU, SubSelectSum>>}

Predicate == BinaryExpression("gt", ColA, Int3)
SortKeys == <<<<ColG, "ASC">>>>
Optional(x) == {None, Some(x)}

\* SELECT 42 FROM DUAL
SelectNumber ==
    Select(SelectList(<<DerivedColumn(Integer("42"), None)>>),
           <<TableName("DUAL", None)>>, None, None, None, None, None, "ALL")

\* SELECT a FROM t GROUP BY b
SelectUngrouped ==
    Select(SelectList(<<DerivedColumn(ColA, None)>>), <<TableT>>, None,
           Some(<<ColumnReference(<<"b">>)>>), None, None, None, "ALL")

\* SELECT g, SUM(a) as a FROM t GROUP BY g
SelectGrouped ==
    Select(SelectList(<<DerivedColumn(ColG, None),
                        DerivedColumn(SumA, Some("a"))>>),
           <<TableT>>, None, Some(<<ColG>>), None, None, None, "ALL")

\* SELECT * FROM a, b, c JOIN d ON g = h
SelectThreeTables ==
    Select(Asterisk,
           <<TableName("a", None), TableName("b", None),
             JoinedTable(TableName("c", None),
                 <<AstJoin("INNER", TableName("d", None),
                       BinaryExpression("eq", ColG,
                                        ColumnReference(<<"h">>)))>>)>>,
           None, None, None, None, None, "ALL")

Examples == {SelectNumber, SelectUngrouped, SelectGrouped, SelectThreeTables}

\* the Selects compile_dag is called with
Selects ==
    Examples \cup
    {Select(sl, fc, w, gb, h, ob, l, q) :
        sl \in SelectLists \cup {Asterisk}, fc \in FromClauses,
        w \in Optional(Predicate), gb \in GroupByClauses,
        h \in Optional(BinaryExpression("lt", ColumnReference(<<"s">>), Int3)),
        ob \in Optional(SortKeys), l \in Optional(LimitClause(1, 2)),
        q \in {"ALL", "distinct", "SOME"}}

(***************************************************************************)
(* The state: the caller's shared generator and the last call made.        *)
(***************************************************************************)
VARIABLES
    shared,        \* position of the generator the caller keeps across calls
    op,            \* the entry point last called
    arg,           \* its argument
    id_generator,  \* its id_generator argument: None or Some(position)
    result         \* what it returned, or the error it raised

vars == <<shared, op, arg, id_generator, result>>

Init ==
    /\ shared = 0
    /\ op = "none"
    /\ arg = None
    /\ id_generator = None
    /\ result = [err |-> NoError]

\* a call either passes the shared generator or leaves id_generator to None;
\* a generator that was passed stays where the call left it, also on an error
Call(name, input, inject, r) ==
    /\ op' = name
    /\ arg' = input
    /\ id_generator' = (IF inject THEN Some(shared) ELSE None)
    /\ result' = r
    /\ shared' = (IF inject THEN r.g.n ELSE shared)

\* the caller is between two calls
Idle == op = "none"

\* whether a call is made with id_generator = None or with the shared
\* generator.  A call with None neither reads nor writes the shared generator,
\* so it is explored with the shared generator at its start only.
Injections == {inject \in BOOLEAN : IF inject THEN shared <= MaxGenStart
                                               ELSE shared = 0}

\* split_aggregate(expr, id_generator)
CallSplitAggregate ==
    /\ Idle
    /\ \E expr \in Exprs, inject \in Injections :
         \E r \in {split_aggregate(expr,
                      GeneratorOf(IF inject THEN Some(shared) ELSE None))} :
            Call("split_aggregate", expr, inject, r)

\* split_aggregates(exprs, id_generator)
CallSplitAggregates ==
    /\ Idle
    /\ \E sl \in SelectLists, inject \in Injections :
         \E r \in {split_aggregates(sl.items,
                      GeneratorOf(IF inject THEN Some(shared) ELSE None))} :
            Call("split_aggregates", sl.items, inject, r)

\* compile_dag(node, id_generator)
CallCompileDag ==
    /\ Idle
    /\ \E node \in Selects, inject \in Injections :
         \E r \in {compile_dag(node,
                      GeneratorOf(IF inject THEN Some(shared) ELSE None))} :
            Call("compile_dag", node, inject, r)

\* the call is over: the caller drops its result and keeps the generator
Return ==
    /\ op # "none"
    /\ op' = "none"
    /\ arg' = None
    /\ id_generator' = None
    /\ result' = [err |-> NoError]
    /\ shared' = shared

Next == CallSplitAggregate \/ CallSplitAggregates \/ CallCompileDag
        \/ Return

Spec == Init /\ [][Next]_vars

(***************************************************************************)
(* Reading expressions and plans, for the properties below.                *)
(***************************************************************************)
RECURSIVE SetFunctions(_)
RECURSIVE SetFunctionsOfAll(_)

\* the GeneralSetFunction nodes of the expressions of a sequence, in order
SetFunctionsOfAll(exprs) ==
    IF exprs = <<>> THEN <<>>
    ELSE SetFunctions(Head(exprs)) \o SetFunctionsOfAll(Tail(exprs))

\* the GeneralSetFunction nodes of an expression, outermost first and left to
\* right (left operand before right operand, arguments in order)
SetFunctions(e) ==
    CASE e.tag = "GeneralSetFunction" -> <<e>> \o SetFunctions(e.value)
      [] e.tag = "BinaryExpression" ->
            SetFunctions(e.left) \o SetFunctions(e.right)
      [] e.tag = "UnaryExpression" -> SetFunctions(e.operand)
      [] e.tag = "FunctionCall" -> SetFunctionsOfAll(e.arguments)
      [] e.tag = "Cast" -> SetFunctions(e.value)
      [] e.tag = "DerivedColumn" -> SetFunctions(e.value)
      [] e.tag = "CaseExpression" ->
            SetFunctionsOfAll([i \in 1..(2 * Len(e.cases)) |->
                                 e.cases[(i + 1) \div 2][2 - (i % 2)]])
            \o (IF IsNone(e.else_) THEN <<>> ELSE SetFunctions(Get(e.else_)))
      [] OTHER -> <<>>

CountSetFunctions(e) == Len(SetFunctions(e))
ContainsSetFunction(e) == SetFunctions(e) # <<>>

\* some aggregate of e has an aggregate inside its argument
HasNestedAggregate(e) ==
    \E i \in 1..Len(SetFunctions(e)) :
        ContainsSetFunction(SetFunctions(e)[i].value)

\* every node class of e has a place in the expression data model of the
\* scalar fixpoint law (no Asterisk, no aggregate)
RECURSIVE TagsOf(_)
RECURSIVE TagsOfAll(_)
TagsOfAll(exprs) ==
    IF exprs = <<>> THEN {} ELSE TagsOf(Head(exprs)) \cup TagsOfAll(Tail(exprs))
TagsOf(e) ==
    {e.tag} \cup
    CASE e.tag = "GeneralSetFunction" -> TagsOf(e.value)
      [] e.tag = "BinaryExpression" -> TagsOf(e.left) \cup TagsOf(e.right)
      [] e.tag = "UnaryExpression" -> TagsOf(e.operand)
      [] e.tag = "FunctionCall" -> TagsOfAll(e.arguments)
      [] e.tag = "Cast" -> TagsOf(e.value)
      [] e.tag = "DerivedColumn" -> TagsOf(e.value)
      [] e.tag = "CaseExpression" ->
            TagsOfAll([i \in 1..(2 * Len(e.cases)) |->
                         e.cases[(i + 1) \div 2][2 - (i % 2)]])
            \cup (IF IsNone(e.else_) THEN {} ELSE TagsOf(Get(e.else_)))
      [] OTHER -> {}

RECURSIVE PlanNodes(_)
\* every node of a plan
PlanNodes(p) ==
    {p} \cup
    CASE p.tag \in {"CrossJoin", "Join"} ->
            PlanNodes(p.left) \cup PlanNodes(p.right)
      [] p.tag = "GetTable" -> {}
      [] OTHER -> PlanNodes(p.input)

RECURSIVE CountAggregateNodes(_)
\* how many Aggregate nodes a plan holds
CountAggregateNodes(p) ==
    CASE p.tag \in {"CrossJoin", "Join"} ->
            CountAggregateNodes(p.left) + CountAggregateNodes(p.right)
      [] p.tag = "GetTable" -> 0
      [] OTHER -> (IF p.tag = "Aggregate" THEN 1 ELSE 0)
                  + CountAggregateNodes(p.input)

RECURSIVE NestedSelects(_)
RECURSIVE NestedSelectsOfAll(_)
\* the Selects of a sequence of table references, in compilation order
NestedSelectsOfAll(tables) ==
    IF tables = <<>> THEN <<>>
    ELSE NestedSelects(Head(tables)) \o NestedSelectsOfAll(Tail(tables))
\* a table reference's Selects: those of its FROM clause before itself
NestedSelects(t) ==
    CASE t.tag = "Select" -> NestedSelectsOfAll(t.from_clause) \o <<t>>
      [] t.tag = "JoinedTable" ->
            NestedSelects(t.table)
            \o NestedSelectsOfAll([i \in 1..Len(t.joins) |-> t.joins[i].table])
      [] OTHER -> <<>>

\* the select list is a list of derived columns that holds an aggregate
SelectsAnAggregate(sel) ==
    /\ sel.select_list # Asterisk
    /\ SetFunctionsOfAll(sel.select_list.items) # <<>>

\* the GROUP BY keys of a Select that are given a fresh alias
FreshGroupKeys(sel) ==
    IF IsNone(sel.group_by_clause) THEN <<>>
    ELSE SelectSeq(Get(sel.group_by_clause),
                   LAMBDA k : k.tag # "ColumnReference")

\* the call sites one Select draws its aliases at, in the order of the
\* traversal: per aggregate of the select list the pre-aggregate alias and then
\* the aggregate alias, and the GROUP BY keys after them
OwnDraws(sel) ==
    IF sel.select_list = Asterisk THEN <<>>
    ELSE [i \in 1..(2 * Len(SetFunctionsOfAll(sel.select_list.items))) |->
             IF i % 2 = 1 THEN "pre_agg_col" ELSE "agg_col"]
         \o [i \in 1..Len(FreshGroupKeys(sel)) |-> "group_by"]

RECURSIVE DrawsOfAll(_)
\* the call sites a sequence of Selects draws at, one Select after the other
DrawsOfAll(sels) ==
    IF sels = <<>> THEN <<>>
    ELSE OwnDraws(Head(sels)) \o DrawsOfAll(Tail(sels))

\* the position of the generator when the last call started
Start == IF IsNone(id_generator) THEN 0 ELSE Get(id_generator)

Compiled == op = "compile_dag" /\ result.err = NoError
SplitDone == op = "split_aggregate" /\ result.err = NoError

RECURSIVE Layers(_, _)
\* the node classes of the first n nodes of a plan, from the root down its inputs
Layers(p, n) ==
    IF n = 0 THEN <<>>
    ELSE IF p.tag \in {"GetTable", "CrossJoin", "Join"} THEN <<p.tag>>
    ELSE <<p.tag>> \o Layers(p.input, n - 1)

RECURSIVE Below(_, _)
\* the plan n inputs below the root
Below(p, n) ==
    IF n = 0 \/ p.tag \in {"GetTable", "CrossJoin", "Join"} THEN p
    ELSE Below(p.input, n - 1)

When(present, layer) == IF present THEN <<layer>> ELSE <<>>

HasGroupKeys(sel) ==
    ~IsNone(sel.group_by_clause) /\ Get(sel.group_by_clause) # <<>>

\* the layers of a Select with a list of derived columns above its FROM plan
LayersAboveFinal(sel) ==
    When(~IsNone(sel.limit_clause), "Limit")
    \o When(Upper(sel.set_quantifier) = "DISTINCT", "DropDuplicates")
    \o When(~IsNone(sel.having_clause), "Filter")
LayersBelowFinal(sel) ==
    When(~IsNone(sel.order_by_clause), "Sort")
    \o When(SelectsAnAggregate(sel), "Aggregate")
    \o When(SelectsAnAggregate(sel) \/ HasGroupKeys(sel), "Transform")
    \o When(~IsNone(sel.where_clause), "Filter")
ExpectedLayers(sel) ==
    LayersAboveFinal(sel) \o <<"Transform">> \o LayersBelowFinal(sel)

\* the plan of the FROM clause of the Select last compiled
FromPlan == CompileFromClause(arg.from_clause, GeneratorOf(id_generator)).table

(***************************************************************************)
(* C1: a compiled Select with a list of derived columns has the layers     *)
(* Limit, DropDuplicates, HAVING Filter, final Transform, Sort, Aggregate, *)
(* pre-aggregate Transform, WHERE Filter, in this order from the root,     *)
(* each present exactly when its clause is (the final Transform always),   *)
(* and the FROM plan below them.                                           *)
(***************************************************************************)
C1_FixedNestingOrder ==
    (Compiled /\ arg.select_list # Asterisk) =>
        LET above == Len(LayersAboveFinal(arg))
            all == Len(ExpectedLayers(arg))
            final == Below(result.table, above)
        IN /\ Layers(result.table, all) = ExpectedLayers(arg)
           /\ Below(result.table, all) = FromPlan
           /\ Len(final.projections) = Len(arg.select_list.items)
           /\ ~IsNone(arg.having_clause) =>
                 Below(result.table, above - 1).predicate
                     = Get(arg.having_clause)
           /\ ~IsNone(arg.order_by_clause) =>
                 /\ final.input.tag = "Sort"
                 /\ final.input.keys = Get(arg.order_by_clause)
           /\ ~IsNone(arg.where_clause) =>
                 Below(result.table, all - 1).predicate
                     = Get(arg.where_clause)

\* a Select with every clause and an aggregate was compiled
C1_Witness ==
    /\ Compiled
    /\ SelectsAnAggregate(arg)
    /\ ~IsNone(arg.where_clause) /\ ~IsNone(arg.having_clause)
    /\ ~IsNone(arg.order_by_clause) /\ ~IsNone(arg.limit_clause)
    /\ HasGroupKeys(arg)
    /\ Layers(result.table, 8)
         = <<"Limit", "DropDuplicates", "Filter", "Transform", "Sort",
             "Aggregate", "Transform", "Filter">>

(***************************************************************************)
(* C2: splitting GeneralSetFunction(name, inner) with an aggregate-free    *)
(* inner draws two ids, p and then a, and returns ColumnReference([a]),    *)
(* [name(ColumnReference([p])) as a] and [inner' as p], with both aliases  *)
(* '$' followed by the id.                                                 *)
(***************************************************************************)
C2_SplitOfOneAggregate ==
    (/\ op = "split_aggregate"
     /\ arg.tag = "GeneralSetFunction"
     /\ ~ContainsSetFunction(arg.value)) =>
        LET p == "$" \o Str(Start)
            a == "$" \o Str(Start + 1)
            inner == Split(arg.value, GeneratorAt(Start))
        IN /\ result.err = NoError
           /\ result.g.n = Start + 2
           /\ result.g.drawn = <<[alias |-> p, site |-> "pre_agg_col"],
                                 [alias |-> a, site |-> "agg_col"]>>
           /\ result.node = ColumnReference(<<a>>)
           /\ result.aggs =
                <<DerivedColumn(
                    GeneralSetFunction(arg.name, ColumnReference(<<p>>)),
                    Some(a))>>
           /\ result.pre_aggs = <<DerivedColumn(inner.node, Some(p))>>

(***************************************************************************)
(* C3, as amended: in a compile_dag call with the default generator the    *)
(* aliases minted are $0, $1, ... without gap or repeat; the Selects nested*)
(* in the FROM clause mint theirs before the enclosing Select; each Select *)
(* mints, per aggregate of its select list from left to right, the         *)
(* pre-aggregate alias and then the aggregate alias, and the aliases of    *)
(* its GROUP BY keys after them.                                           *)
(***************************************************************************)
RECURSIVE FirstAggregate(_)
FirstAggregate(p) == IF p.tag = "Aggregate" THEN p ELSE FirstAggregate(p.input)

C3_AllocationOrder ==
    (Compiled /\ IsNone(id_generator)) =>
        LET drawn == result.g.drawn
            before == Len(DrawsOfAll(NestedSelectsOfAll(arg.from_clause)))
        IN /\ result.g.n = Len(drawn)
           /\ \A i \in 1..Len(drawn) : drawn[i].alias = "$" \o Str(i - 1)
           /\ [i \in 1..Len(drawn) |-> drawn[i].site]
                = DrawsOfAll(NestedSelects(arg))
           /\ SelectsAnAggregate(arg) =>
                LET fns == SetFunctionsOfAll(arg.select_list.items)
                    agg == FirstAggregate(result.table)
                IN /\ Len(agg.aggregates) = Len(fns)
                   /\ \A j \in 1..Len(fns) :
                        LET pre == "$" \o Str(before + 2 * j - 2)
                            own == "$" \o Str(before + 2 * j - 1)
                        IN /\ agg.aggregates[j] =
                                DerivedColumn(
                                    GeneralSetFunction(fns[j].name, Ref(pre)),
                                    Some(own))
                           /\ agg.input.projections[j] =
                                DerivedColumn(fns[j].value, Some(pre))

\* C3 as stated: over the whole call every alias of a GROUP BY key is minted
\* after every alias of a select list
C3_GroupByAfterSelectLists ==
    (Compiled /\ IsNone(id_generator)) =>
        LET drawn == result.g.drawn
        IN /\ \A i \in 1..Len(drawn) : drawn[i].alias = "$" \o Str(i - 1)
           /\ \A i, j \in 1..Len(drawn) :
                (i < j /\ drawn[i].site = "group_by")
                    => drawn[j].site = "group_by"

\* SUM(a) - 3 * AVG(a) was compiled over a nested Select, with a GROUP BY key
\* that needs an alias: SUM got the first pair, AVG the second
C3_Witness ==
    /\ Compiled /\ IsNone(id_generator)
    /\ arg.select_list # Asterisk
    /\ arg.select_list.items =
         <<DerivedColumn(BinaryExpression("sub", SumA,
               BinaryExpression("mul", Int3, AvgA)), None)>>
    /\ arg.from_clause = <<TableU, SubSelectSum>>
    /\ arg.group_by_clause = Some(<<AplusG>>)
    /\ [i \in 1..Len(result.g.drawn) |-> result.g.drawn[i].alias]
         = <<"$0", "$1", "$2", "$3", "$4", "$5", "$6", "$7">>
    /\ FirstAggregate(result.table).aggregates[2].value
         = GeneralSetFunction("AVG", Ref("$5"))

(***************************************************************************)
(* C4: splitting an expression without GeneralSetFunction succeeds,        *)
(* returns the expression unchanged with no aggregates and no              *)
(* pre-aggregates, and leaves the generator where it was.                  *)
(***************************************************************************)
C4_ScalarFixpoint ==
    (/\ op = "split_aggregate"
     /\ ~ContainsSetFunction(arg)
     /\ "Asterisk" \notin TagsOf(arg)) =>
        /\ result.err = NoError
        /\ result.node = arg
        /\ result.aggs = <<>>
        /\ result.pre_aggs = <<>>
        /\ result.g.n = Start

(***************************************************************************)
(* C5: a split that succeeds returns as many aggregates and as many        *)
(* pre-aggregates as the expression has GeneralSetFunction nodes, the i-th *)
(* aggregate applied to a reference to the i-th pre-aggregate's alias, and *)
(* draws twice that many ids; split_aggregates returns the per-expression  *)
(* lists concatenated in list order.                                       *)
(***************************************************************************)
RECURSIVE EachSplit(_, _)
\* split_aggregate on each expression in turn, on one generator
EachSplit(exprs, g) ==
    IF exprs = <<>> THEN <<>>
    ELSE LET t == split_aggregate(Head(exprs), g)
         IN <<t>> \o EachSplit(Tail(exprs), t.g)

RECURSIVE Flatten(_)
Flatten(seqs) == IF seqs = <<>> THEN <<>>
                 ELSE Head(seqs) \o Flatten(Tail(seqs))

C5_CountInvariance ==
    /\ SplitDone =>
        LET count == CountSetFunctions(arg)
        IN /\ Len(result.aggs) = count
           /\ Len(result.pre_aggs) = count
           /\ result.g.n = Start + 2 * count
           /\ \A i \in 1..count :
                /\ result.aggs[i].value.tag = "GeneralSetFunction"
                /\ ~IsNone(result.pre_aggs[i].alias)
                /\ result.aggs[i].value.value
                     = ColumnReference(<<Get(result.pre_aggs[i].alias)>>)
    /\ (op = "split_aggregates" /\ result.err = NoError) =>
        LET each == EachSplit(arg, GeneratorAt(Start))
        IN /\ result.node = [i \in 1..Len(arg) |-> each[i].node]
           /\ result.aggs = Flatten([i \in 1..Len(arg) |-> each[i].aggs])
           /\ result.pre_aggs
                = Flatten([i \in 1..Len(arg) |-> each[i].pre_aggs])
           /\ Len(result.aggs) = Len(SetFunctionsOfAll(arg))
           /\ result.g.n = Start + 2 * Len(SetFunctionsOfAll(arg))

\* an expression with two aggregates was split on a generator that had
\* already been drawn from
C5_Witness ==
    /\ SplitDone /\ CountSetFunctions(arg) = 2 /\ Start = 1
    /\ result.g.n = 5
    /\ Len(result.aggs) = 2

(***************************************************************************)
(* C6: splitting an expression in which an aggregate's argument holds      *)
(* another aggregate fails, and so does compiling a Select with such an    *)
(* entry in its select list, which returns no plan; the nesting check      *)
(* rejects no aggregate whose argument is aggregate-free.                  *)
(***************************************************************************)
C6_NestingRejection ==
    /\ (op = "split_aggregate" /\ HasNestedAggregate(arg)) =>
          /\ result.err # NoError
          /\ result.node = ErrorNode
    /\ (/\ op = "compile_dag"
        /\ arg.select_list # Asterisk
        /\ \E i \in 1..Len(arg.select_list.items) :
              HasNestedAggregate(arg.select_list.items[i])) =>
          /\ result.err # NoError
          /\ result.table = ErrorPlan
    /\ (op = "split_aggregate" /\ result.err = NestedAggregateError) =>
          HasNestedAggregate(arg)

\* SUM(SUM(a)) was split and rejected by the nesting check
C6_Witness ==
    /\ op = "split_aggregate"
    /\ arg = GeneralSetFunction("SUM", SumA)
    /\ result.err = NestedAggregateError

(***************************************************************************)
(* C7: every entry of every Aggregate node of a compiled plan is a         *)
(* DerivedColumn with an alias over a GeneralSetFunction applied to a      *)
(* one-part ColumnReference (or to Asterisk, for COUNT only); the          *)
(* Aggregate's input is a Transform and the reference names the alias of   *)
(* one of that Transform's projections.                                    *)
(***************************************************************************)
AggregateEntryOk(node, e) ==
    /\ e.tag = "DerivedColumn"
    /\ ~IsNone(e.alias)
    /\ e.value.tag = "GeneralSetFunction"
    /\ node.input.tag = "Transform"
    /\ \/ e.value.value = Asterisk /\ e.value.name = "COUNT"
       \/ /\ e.value.value.tag = "ColumnReference"
          /\ Len(e.value.value.parts) = 1
          /\ \E k \in 1..Len(node.input.projections) :
                node.input.projections[k].alias
                    = Some(e.value.value.parts[1])

C7_AggregateEntries ==
    Compiled =>
        \A node \in PlanNodes(result.table) :
            node.tag = "Aggregate" =>
                /\ node.aggregates # <<>>
                /\ \A i \in 1..Len(node.aggregates) :
                      AggregateEntryOk(node, node.aggregates[i])

\* a plan with two Aggregate nodes, one of them with two entries
C7_Witness ==
    /\ Compiled
    /\ CountAggregateNodes(result.table) = 2
    /\ \E node \in PlanNodes(result.table) :
          node.tag = "Aggregate" /\ Len(node.aggregates) = 2

(***************************************************************************)
(* C8: no projection of a Transform node of a compiled plan holds a        *)
(* GeneralSetFunction, the entries appended for GROUP BY keys included.    *)
(***************************************************************************)
C8_TransformsAreScalar ==
    Compiled =>
        \A node \in PlanNodes(result.table) :
            node.tag = "Transform" =>
                \A i \in 1..Len(node.projections) :
                    ~ContainsSetFunction(node.projections[i])

(***************************************************************************)
(* C9, as amended: a Select whose select list holds an aggregate compiles  *)
(* to a plan with exactly one Aggregate node above its FROM plan; the      *)
(* whole plan holds one Aggregate node for the Select and one for each     *)
(* Select nested in its FROM clause whose select list holds an aggregate.  *)
(***************************************************************************)
AggregatingSelects(sel) ==
    SelectSeq(NestedSelects(sel), SelectsAnAggregate)

C9_OneAggregatePerSelect ==
    (Compiled /\ SelectsAnAggregate(arg)) =>
        /\ CountAggregateNodes(result.table)
             = 1 + CountAggregateNodes(FromPlan)
        /\ CountAggregateNodes(result.table) = Len(AggregatingSelects(arg))

\* C9 as stated: exactly one Aggregate node in the whole plan
C9_ExactlyOneAggregate ==
    (Compiled /\ SelectsAnAggregate(arg)) =>
        CountAggregateNodes(result.table) = 1

\* an aggregating Select over an aggregating nested Select was compiled
C9_Witness ==
    /\ Compiled /\ SelectsAnAggregate(arg)
    /\ Len(AggregatingSelects(arg)) = 2
    /\ CountAggregateNodes(result.table) = 2

(***************************************************************************)
(* C10, as amended: a Select whose select list is Asterisk, and whose FROM *)
(* clause nests no Select with another select list, compiles to GetTable   *)
(* leaves under CrossJoin and Join, wrapped by Filter, Sort,               *)
(* DropDuplicates and Limit only, and draws no id; with any FROM clause    *)
(* the layers it puts above its FROM plan are of these four only and it    *)
(* draws no id beyond those its FROM clause draws.                         *)
(***************************************************************************)
PlanTags(p) == {node.tag : node \in PlanNodes(p)}

AsteriskOnly(sel) ==
    \A i \in 1..Len(NestedSelects(sel)) :
        NestedSelects(sel)[i].select_list = Asterisk

AsteriskLayers(sel) ==
    When(~IsNone(sel.limit_clause), "Limit")
    \o When(Upper(sel.set_quantifier) = "DISTINCT", "DropDuplicates")
    \o When(~IsNone(sel.having_clause), "Filter")
    \o When(~IsNone(sel.order_by_clause), "Sort")
    \o When(~IsNone(sel.where_clause), "Filter")

C10_AsteriskPlan ==
    (Compiled /\ arg.select_list = Asterisk) =>
        /\ Layers(result.table, Len(AsteriskLayers(arg))) = AsteriskLayers(arg)
        /\ Below(result.table, Len(AsteriskLayers(arg))) = FromPlan
        /\ result.g
             = CompileFromClause(arg.from_clause, GeneratorOf(id_generator)).g
        /\ AsteriskOnly(arg) =>
              /\ PlanTags(result.table) \subseteq
                    {"GetTable", "CrossJoin", "Join", "Filter", "Sort",
                     "DropDuplicates", "Limit"}
              /\ result.g.n = Start
              /\ result.g.drawn = <<>>

\* C10 as stated: no Transform, no Aggregate and no id, whatever the FROM
\* clause nests
C10_NoTransformAnywhere ==
    (Compiled /\ arg.select_list = Asterisk) =>
        /\ PlanTags(result.table) \subseteq
              {"GetTable", "CrossJoin", "Join", "Filter", "Sort",
               "DropDuplicates", "Limit"}
        /\ result.g.n = Start

\* SELECT * over a nested SELECT *, with every clause, was compiled
C10_Witness ==
    /\ Compiled /\ arg.select_list = Asterisk
    /\ arg.from_clause = <<SubSelectAll>>
    /\ Layers(result.table, 6)
         = <<"Limit", "DropDuplicates", "Filter", "Sort", "Filter",
             "GetTable">>

(***************************************************************************)
(* C11: unaliased scalar entries.                                          *)
(***************************************************************************)
\* the select list is one unaliased entry that holds no aggregate, over plain
\* tables and without GROUP BY
SingleUnaliasedScalar(sel) ==
    /\ sel.select_list # Asterisk
    /\ Len(sel.select_list.items) = 1
    /\ IsNone(sel.select_list.items[1].alias)
    /\ ~ContainsSetFunction(sel.select_list.items[1])
    /\ NestedSelectsOfAll(sel.from_clause) = <<>>
    /\ ~HasGroupKeys(sel)

\* the final Transform of the plan of a compiled Select
FinalTransform == Below(result.table, Len(LayersAboveFinal(arg)))

\* C11: compiling a Select whose select list is a single unaliased scalar
\* entry mints a fresh alias for it: the final Transform projects the entry
\* under the alias '$' + the id drawn, and exactly one id is consumed
\* (SELECT 42 FROM DUAL gives [42 as $0], SELECT a FROM t gives [a as $0]).
C11_UnaliasedScalarIsAliased ==
    (Compiled /\ SingleUnaliasedScalar(arg)) =>
        /\ FinalTransform.tag = "Transform"
        /\ FinalTransform.projections
             = <<DerivedColumn(arg.select_list.items[1].value,
                               Some("$" \o Str(Start)))>>
        /\ result.g.n = Start + 1

\* what split_derived_column does instead: the entry keeps its absent alias
\* and no id is drawn
C11_UnaliasedScalarKeepsNoAlias ==
    (Compiled /\ SingleUnaliasedScalar(arg)) =>
        /\ FinalTransform.tag = "Transform"
        /\ FinalTransform.projections = arg.select_list.items
        /\ result.g.n = Start
        /\ result.g.drawn = <<>>

\* SELECT 42 FROM DUAL has been compiled with the default generator
C11_SelectNumberCompiled ==
    /\ Compiled /\ arg = SelectNumber /\ IsNone(id_generator)
    /\ result.table
         = Transform(GetTable("DUAL", None),
                     <<DerivedColumn(Integer("42"), None)>>)

(***************************************************************************)
(* C12: select-list columns outside the GROUP BY keys.                     *)
(***************************************************************************)
RECURSIVE ColumnsOutsideAggregates(_)
RECURSIVE ColumnsOutsideAggregatesOfAll(_)
ColumnsOutsideAggregatesOfAll(exprs) ==
    IF exprs = <<>> THEN {}
    ELSE ColumnsOutsideAggregates(Head(exprs))
         \cup ColumnsOutsideAggregatesOfAll(Tail(exprs))
\* the ColumnReference nodes of an expression that are not inside an aggregate
ColumnsOutsideAggregates(e) ==
    CASE e.tag = "ColumnReference" -> {e}
      [] e.tag = "BinaryExpression" ->
            ColumnsOutsideAggregates(e.left)
            \cup ColumnsOutsideAggregates(e.right)
      [] e.tag = "UnaryExpression" -> ColumnsOutsideAggregates(e.operand)
      [] e.tag = "FunctionCall" -> ColumnsOutsideAggregatesOfAll(e.arguments)
      [] e.tag = "Cast" -> ColumnsOutsideAggregates(e.value)
      [] e.tag = "DerivedColumn" -> ColumnsOutsideAggregates(e.value)
      [] OTHER -> {}

\* the GROUP BY keys of a Select, as a set
GroupKeySet(sel) ==
    IF IsNone(sel.group_by_clause) THEN {}
    ELSE {Get(sel.group_by_clause)[i] :
            i \in 1..Len(Get(sel.group_by_clause))}

\* a grouped Select whose select list names, outside every aggregate and
\* outside every key expression, a column that is not a GROUP BY key
NamesUngroupedColumn(sel) ==
    /\ sel.select_list # Asterisk
    /\ HasGroupKeys(sel)
    /\ \E i \in 1..Len(sel.select_list.items) :
         /\ sel.select_list.items[i].value \notin GroupKeySet(sel)
         /\ ColumnsOutsideAggregates(sel.select_list.items[i])
               \ GroupKeySet(sel) # {}

\* C12: the compiler rejects a Select whose select list names a column that
\* is neither a GROUP BY key nor inside an aggregate: the compile_dag call
\* fails and returns no plan (SELECT a FROM t GROUP BY b).
C12_UngroupedColumnRejected ==
    (op = "compile_dag" /\ NamesUngroupedColumn(arg)) => result.err # NoError

\* what the compiler does instead: the only errors of such a Select are those
\* of its FROM clause, its set quantifier and the aggregate splitter
C12_UngroupedColumnNotChecked ==
    (op = "compile_dag" /\ NamesUngroupedColumn(arg)
       /\ result.err # NoError) =>
        \/ result.err = EmptyFromClause
        \/ result.err = UnknownSetQuantifier
        \/ result.err = NestedAggregateError

\* SELECT a FROM t GROUP BY b has been compiled to a plan
C12_SelectUngroupedCompiled ==
    /\ Compiled /\ arg = SelectUngrouped
    /\ result.table
         = Transform(Transform(GetTable("t", None),
                        <<DerivedColumn(ColumnReference(<<"b">>),
                                        Some("b"))>>),
                     <<DerivedColumn(ColA, None)>>)

(***************************************************************************)
(* C13: aliases minted through one generator are pairwise distinct.        *)
(***************************************************************************)
\* the aliases a generator has minted before it stands at position n
AliasesBefore(n) == {"$" \o Str(k) : k \in 0..(n - 1)}

\* the aliases the last call minted, in the order of the draws
MintedByCall == [i \in 1..Len(result.g.drawn) |-> result.g.drawn[i].alias]

Range(seq) == {seq[i] : i \in 1..Len(seq)}
NoRepeat(seq) == \A i, j \in 1..Len(seq) : i < j => seq[i] # seq[j]

\* the aliases of the derived columns of a list that have one
AliasesOf(cols) ==
    [i \in 1..Len(SelectSeq(cols, LAMBDA c : ~IsNone(c.alias))) |->
        Get(SelectSeq(cols, LAMBDA c : ~IsNone(c.alias))[i].alias)]

RECURSIVE PlanAliases(_)
\* the aliases the Transform and Aggregate nodes of a plan define, inputs first
PlanAliases(p) ==
    CASE p.tag \in {"CrossJoin", "Join"} ->
            PlanAliases(p.left) \o PlanAliases(p.right)
      [] p.tag = "GetTable" -> <<>>
      [] p.tag = "Transform" ->
            PlanAliases(p.input) \o AliasesOf(p.projections)
      [] p.tag = "Aggregate" ->
            PlanAliases(p.input) \o AliasesOf(p.aggregates)
      [] OTHER -> PlanAliases(p.input)

\* the compiler-minted aliases a compiled plan defines: those of the ids the
\* Selects of the call can draw from where the generator started
MintedInPlan ==
    SelectSeq(PlanAliases(result.table),
              LAMBDA a : a \in AliasesBefore(
                            Start + Len(DrawsOfAll(NestedSelects(arg)))))

\* the aliases of the last call are pairwise distinct, in the draws and in the
\* plan; those of a call on the shared generator are none of the aliases the
\* generator minted before, and the generator is left behind them
DistinctWithinCall ==
    op # "none" =>
        /\ NoRepeat(MintedByCall)
        /\ ~IsNone(id_generator) =>
             /\ Range(MintedByCall) \cap AliasesBefore(Start) = {}
             /\ Range(MintedByCall) \subseteq AliasesBefore(shared)
             /\ shared = Start + Len(MintedByCall)
        /\ Compiled =>
             /\ NoRepeat(MintedInPlan)
             /\ Range(MintedInPlan) = Range(MintedByCall)

\* a call on the shared generator starts where the calls before left it, and
\* the generator never moves back
SharedGeneratorThreaded ==
    /\ shared' >= shared
    /\ (op' # "none" /\ ~IsNone(id_generator'))
          => Get(id_generator') = shared

\* C13: for any sequence of split_aggregate and compile_dag calls that thread
\* the same id generator, and within one compile_dag call across the outer
\* Select and every Select nested in its FROM clause, all compiler-minted
\* aliases are pairwise distinct: no $N is minted twice.
C13_AliasesDistinct == []DistinctWithinCall /\ [][SharedGeneratorThreaded]_vars

\* a Select over a nested Select was compiled on a shared generator that an
\* earlier call had drawn from: the nested Select got $1, $2, $3 and the
\* outer one $4, $5
C13_Witness ==
    /\ Compiled /\ id_generator = Some(1)
    /\ arg.from_clause = <<TableU, SubSelectSum>>
    /\ MintedByCall = <<"$1", "$2", "$3", "$4", "$5">>
    /\ MintedInPlan = <<"$1", "$3", "$2", "$4", "$5">>
    /\ shared = 6

(***************************************************************************)
(* C14: GROUP BY normalization.                                            *)
(***************************************************************************)
\* the GROUP BY keys of a Select, none when the clause is absent
GroupKeysOf(sel) ==
    IF IsNone(sel.group_by_clause) THEN <<>> ELSE Get(sel.group_by_clause)

\* the alias of the i-th key: a bare column keeps its name, any other key is
\* given the next id after `base` that no earlier key took
KeyAlias(keys, i, base) ==
    IF keys[i].tag = "ColumnReference"
    THEN keys[i].parts[Len(keys[i].parts)]
    ELSE "$" \o Str(base + Len(SelectSeq(SubSeq(keys, 1, i - 1),
                                    LAMBDA k : k.tag # "ColumnReference")))

\* the plan below the final Transform, the Sort and the Aggregate of the
\* Select last compiled: its pre-aggregate Transform when it has one
BelowAggregate ==
    Below(result.table,
          Len(LayersAboveFinal(arg)) + 1
          + Len(When(~IsNone(arg.order_by_clause), "Sort"))
          + Len(When(SelectsAnAggregate(arg), "Aggregate")))

\* the position of the generator after the Selects nested in the FROM clause
\* and the aggregates of the select list have drawn their ids
AfterSelectList ==
    Start + Len(DrawsOfAll(NestedSelectsOfAll(arg.from_clause)))
    + 2 * Len(SetFunctionsOfAll(arg.select_list.items))

\* SELECT g, SUM(a) as a FROM t GROUP BY g, compiled
GroupedPlan ==
    Transform(
        Aggregate(
            Transform(GetTable("t", None),
                      <<DerivedColumn(ColA, Some("$0")),
                        DerivedColumn(ColG, Some("g"))>>),
            <<DerivedColumn(GeneralSetFunction("SUM", Ref("$0")),
                            Some("$1"))>>,
            Some(<<Ref("g")>>)),
        <<DerivedColumn(ColG, None), DerivedColumn(Ref("$1"), Some("a"))>>)

\* C14: for a Select with a list of derived columns and n GROUP BY keys the
\* pre-aggregate list ends, after the entries of the select-list split, with
\* the n entries DerivedColumn(key_i, alias_i) in clause order; an Aggregate
\* that is emitted groups by [ColumnReference([alias_i])]; alias_i is the
\* key's own name, at no id, for a bare ColumnReference and a fresh $N
\* otherwise.  Without a GROUP BY clause nothing is appended and the
\* Aggregate's group_by is absent.  SELECT g, SUM(a) as a FROM t GROUP BY g
\* draws two ids and compiles to GroupedPlan.
C14_GroupByNormalization ==
    (Compiled /\ arg.select_list # Asterisk) =>
        LET keys == GroupKeysOf(arg)
            n == Len(keys)
            k == Len(SetFunctionsOfAll(arg.select_list.items))
            pre == BelowAggregate
        IN /\ (k + n > 0) =>
                /\ pre.tag = "Transform"
                /\ Len(pre.projections) = k + n
                /\ \A i \in 1..n :
                      pre.projections[k + i]
                        = DerivedColumn(keys[i],
                              Some(KeyAlias(keys, i, AfterSelectList)))
           /\ (k + n = 0) =>
                pre = FilterPreTransform(arg, FromPlan)
           /\ (k > 0) =>
                /\ pre.tag = "Transform"
                /\ FirstAggregate(result.table).input = pre
                /\ FirstAggregate(result.table).group_by
                     = (IF IsNone(arg.group_by_clause) THEN None
                        ELSE Some([i \in 1..n |->
                                Ref(KeyAlias(keys, i, AfterSelectList))]))
           /\ result.g.n = AfterSelectList + Len(FreshGroupKeys(arg))
           /\ (arg = SelectGrouped /\ IsNone(id_generator)) =>
                /\ result.table = GroupedPlan
                /\ result.g.n = 2

\* an aggregate was compiled over a nested Select on a generator that stood at
\* 1, grouped by an expression and a bare column: the expression is appended
\* first under the fresh alias $6, the column after it under its own name
C14_Witness ==
    /\ Compiled /\ id_generator = Some(1)
    /\ arg.select_list # Asterisk
    /\ arg.select_list.items
         = <<DerivedColumn(GeneralSetFunction("SUM", AplusG), Some("s"))>>
    /\ arg.from_clause = <<TableU, SubSelectSum>>
    /\ arg.group_by_clause = Some(<<AplusG, ColG>>)
    /\ BelowAggregate.projections
         = <<DerivedColumn(AplusG, Some("$4")),
             DerivedColumn(AplusG, Some("$6")),
             DerivedColumn(ColG, Some("g"))>>
    /\ FirstAggregate(result.table).group_by = Some(<<Ref("$6"), Ref("g")>>)
    /\ result.g.n = 7

(***************************************************************************)
(* C15: the plan of a FROM clause.                                         *)
(***************************************************************************)
\* how many ids the Selects nested in a sequence of table references draw
DrawCount(tables) == Len(DrawsOfAll(NestedSelectsOfAll(tables)))

RECURSIVE TablePlan(_, _)
RECURSIVE FoldJoins(_, _, _)

\* the plan of one table reference, with the generator at position pos
TablePlan(t, pos) ==
    CASE t.tag = "TableName" -> GetTable(t.table, t.alias)
      [] t.tag = "Select" -> compile_dag(t, GeneratorAt(pos)).table
      [] t.tag = "JoinedTable" -> FoldJoins(t, Len(t.joins), pos)

\* the first j joins of a JoinedTable folded onto the plan of its left table
FoldJoins(t, j, pos) ==
    IF j = 0 THEN TablePlan(t.table, pos)
    ELSE LET acc == FoldJoins(t, j - 1, pos)
             right == TablePlan(t.joins[j].table,
                          pos + DrawCount(<<t.table>>)
                          + DrawCount([i \in 1..(j - 1) |->
                                          t.joins[i].table]))
         IN IF t.joins[j].tag = "Join"
            THEN Join(acc, right, Lower(t.joins[j].how), t.joins[j].on)
            ELSE CrossJoin(acc, right)

RECURSIVE LeftDeep(_, _, _)
\* the left-deep tree of CrossJoins over the first n tables of a FROM list
LeftDeep(from_clause, n, pos) ==
    IF n = 1 THEN TablePlan(from_clause[1], pos)
    ELSE CrossJoin(LeftDeep(from_clause, n - 1, pos),
                   TablePlan(from_clause[n],
                       pos + DrawCount(SubSeq(from_clause, 1, n - 1))))

\* the plan below the layers the clauses of the Select last compiled add
CompiledFromPlan ==
    IF arg.select_list = Asterisk
    THEN Below(result.table, Len(AsteriskLayers(arg)))
    ELSE Below(result.table, Len(ExpectedLayers(arg)))

\* C15: a FROM list [t1, ..., tn], n >= 1, compiles to the left-deep tree
\* CrossJoin(...CrossJoin(p1, p2)..., pn) with the leaves in list order (one
\* table: its plan, no CrossJoin); a JoinedTable folds its joins left to
\* right onto the plan of its left table, a Join as Join(acc, right, how
\* lower-cased, on) and a CrossJoin as CrossJoin(acc, right); a TableName
\* becomes GetTable(table, alias); a nested Select is compiled recursively;
\* an empty FROM list fails with an error.
C15_FromCompilation ==
    op = "compile_dag" =>
        /\ arg.from_clause = <<>> =>
             /\ result.err = EmptyFromClause
             /\ result.err # NoError
        /\ (arg.from_clause # <<>> /\ result.err = NoError) =>
             CompiledFromPlan
               = LeftDeep(arg.from_clause, Len(arg.from_clause), Start)

\* SELECT * FROM a, b, c JOIN d ON g = h has been compiled
C15_Witness ==
    /\ Compiled /\ arg = SelectThreeTables
    /\ result.table
         = CrossJoin(
              CrossJoin(GetTable("a", None), GetTable("b", None)),
              Join(GetTable("c", None), GetTable("d", None), "inner",
                   BinaryExpression("eq", ColG, ColumnReference(<<"h">>))))

====
